---- MODULE Spec2Model ----
(***************************************************************************)
(* In-memory banking ledger of projeto-solid: the monolithic Banco of      *)
(* original/OriginalClasses.py (prefix O_) and the refactored Banco of     *)
(* solid/RefactoredClasses.py (prefix R_), run side by side on the same    *)
(* sequence of calls.                                                      *)
(*                                                                         *)
(* Money (a Decimal quantized to 0.01) is an integer number of centavos.   *)
(* A Python dict is a sequence of its values in insertion order.           *)
(* An exception is the name of its class; "" means the call returned.      *)
(* datetime.utcnow() is a logical clock, agoraO and agoraR, that advances  *)
(* by one at each reading.                                                 *)
(***************************************************************************)
EXTENDS Integers, Sequences, FiniteSets, TLC

VARIABLES original, refatorado, agoraO, agoraR, bruto, dinheiro

vars == <<original, refatorado, agoraO, agoraR, bruto, dinheiro>>

-----------------------------------------------------------------------------
(* Bounds of the model.                                                    *)

\* accounts opened per ledger
MaxContas == 2
\* calls are made while a ledger has created at most this many Transacao
\* objects (each takes one reading of datetime.utcnow)
MaxAgora == 1
\* centavos a ledger holds after a call (the sum of its balances): amounts
\* above it are withdrawn, transferred and deposited by the claims only
MaxTotal == 200
\* _to_money alone is given the literals coef * 10^-casas with
\* |coef| <= MaxCoef and 0 <= casas <= MaxCasas (and those of Exemplos)
MaxCoef == 30
MaxCasas == 3

-----------------------------------------------------------------------------
(* Inputs of the calls.                                                    *)

CPFs == {"111", "222"}
Nomes == {"Ana", "Bia"}

\* A raw amount as the caller passes it.  classe "numero" is a decimal
\* literal coef * 10^-casas; "nan" is NaN; "infinito" is Infinity (or a
\* literal too large to quantize at precision 28); "lixo" is text that is
\* no decimal literal.  tipo is the Python type of the argument.  A
\* negative casas is a positive exponent: "1e26" is 1 * 10^26.
Numero(tipo, coef, casas) ==
    [tipo |-> tipo, classe |-> "numero", coef |-> coef, casas |-> casas]
Especial(tipo, classe) ==
    [tipo |-> tipo, classe |-> classe, coef |-> 0, casas |-> 0]

Valores ==
    { Numero("Decimal", 1, 0),      \* Decimal("1")  -> 1.00
      Numero("str", 3005, 3),       \* "3.005"       -> 3.00 (tie, to even)
      Numero("str", 4, 3),          \* "0.004"       -> 0.00
      Numero("str", -1, 0),         \* "-1"          -> -1.00
      Especial("str", "lixo"),      \* "abc"
      Especial("str", "nan"),       \* "NaN"
      Especial("Decimal", "infinito") }  \* Decimal("Infinity")

-----------------------------------------------------------------------------
(* str(int) and the decimal arithmetic of _to_money.                       *)

Digito(d) ==
    CASE d = 0 -> "0" [] d = 1 -> "1" [] d = 2 -> "2" [] d = 3 -> "3"
      [] d = 4 -> "4" [] d = 5 -> "5" [] d = 6 -> "6" [] d = 7 -> "7"
      [] d = 8 -> "8" [] d = 9 -> "9"

RECURSIVE str(_)
str(n) == IF n < 10 THEN Digito(n) ELSE str(n \div 10) \o Digito(n % 10)

RECURSIVE Pot10(_)
Pot10(k) == IF k = 0 THEN 1 ELSE 10 * Pot10(k - 1)

Abs(i) == IF i < 0 THEN -i ELSE i

\* getcontext().prec
Prec == 28

\* Number of decimal digits of n > 0.
RECURSIVE Digitos(_)
Digitos(n) == IF n < 10 THEN 1 ELSE 1 + Digitos(n \div 10)

\* quantize signals InvalidOperation when the coefficient of its result
\* would have more than prec digits.  (With more than two places the
\* result has no more digits than coef has, and no coef here has 28.)
Excede(coef, casas) ==
    coef # 0 /\ casas <= 2 /\ Digitos(Abs(coef)) + (2 - casas) > Prec

\* Mutant: quantize that drops the places beyond the second (ROUND_DOWN).
quantize_trunca(coef, casas) ==
    IF casas <= 2 THEN coef * Pot10(2 - casas)
    ELSE LET q == Abs(coef) \div Pot10(casas - 2)
         IN  IF coef < 0 THEN -q ELSE q

\* Decimal.quantize(Decimal("0.01")) of coef * 10^-casas under the default
\* context rounding ROUND_HALF_EVEN, in centavos.
quantize(coef, casas) ==
    IF casas <= 2 THEN coef * Pot10(2 - casas)
    ELSE LET d == Pot10(casas - 2)
             q == Abs(coef) \div d
             r == Abs(coef) % d
             m == IF 2 * r > d \/ (2 * r = d /\ q % 2 = 1) THEN q + 1 ELSE q
         IN  IF coef < 0 THEN -m ELSE m

\* The result of _to_money: an exception, or a Decimal that is NaN or a
\* number of centavos.
Dinheiro(exc, nan, centavos) == [exc |-> exc, nan |-> nan, centavos |-> centavos]

\* Decimal(str(valor)).quantize(Decimal("0.01")), all of it inside the try:
\* InvalidOperation from the parse or from quantize becomes ValorInvalido;
\* quantize of NaN returns NaN without signalling.
R_to_money(valor) ==
    CASE valor.classe = "lixo" -> Dinheiro("ValorInvalido", FALSE, 0)
      [] valor.classe = "infinito" -> Dinheiro("ValorInvalido", FALSE, 0)
      [] valor.classe = "nan" -> Dinheiro("", TRUE, 0)
      [] valor.classe = "numero" ->
            IF Excede(valor.coef, valor.casas)
            THEN Dinheiro("ValorInvalido", FALSE, 0)
            ELSE Dinheiro("", FALSE, quantize(valor.coef, valor.casas))

\* A Decimal is taken as it is, anything else is parsed inside the try; the
\* quantize is outside the try, so its InvalidOperation propagates.
O_to_money(valor) ==
    IF valor.tipo # "Decimal" /\ valor.classe = "lixo"
    THEN Dinheiro("ValorInvalido", FALSE, 0)
    ELSE CASE valor.classe = "infinito" ->
                Dinheiro("decimal.InvalidOperation", FALSE, 0)
           [] valor.classe = "nan" -> Dinheiro("", TRUE, 0)
           [] valor.classe = "numero" ->
                IF Excede(valor.coef, valor.casas)
                THEN Dinheiro("decimal.InvalidOperation", FALSE, 0)
                ELSE Dinheiro("", FALSE, quantize(valor.coef, valor.casas))

-----------------------------------------------------------------------------
(* The models.                                                             *)

Cliente(id, nome, cpf) == [id |-> id, nome |-> nome, cpf |-> cpf]

Transacao(momento, tipo, valor, descricao, origem, destino) ==
    [momento |-> momento, tipo |-> tipo, valor |-> valor,
     descricao |-> descricao, origem |-> origem, destino |-> destino]

\* Mutant: registrar that inserts at the head of the list.
registrar_noInicio(historico, transacao) == <<transacao>> \o historico

\* RegistroTransacoes: the list _historico
registrar(historico, transacao) == Append(historico, transacao)

listar(historico) == historico

\* Index of the value stored under a key of a dict, 0 when absent.
Indice(dict, campo, chave) ==
    IF \E i \in 1..Len(dict) : dict[i][campo] = chave
    THEN CHOOSE i \in 1..Len(dict) : dict[i][campo] = chave
    ELSE 0

-----------------------------------------------------------------------------
(* solid/RefactoredClasses.py                                              *)

\* The result of a method of Conta: the exception raised, the account
\* after the call and the number of Transacao objects it created.
Efeito(exc, conta, criadas) == [exc |-> exc, conta |-> conta, criadas |-> criadas]

R_Conta(numero, cliente) ==
    [numero |-> numero, cliente |-> cliente, saldo |-> 0, transacoes |-> <<>>]

\* Mutant: depositar without the call of registrar.
R_Conta_depositar_semRegistro(conta, valor, descricao, agora) ==
    IF valor.nan THEN Efeito("decimal.InvalidOperation", conta, 0)
    ELSE IF valor.centavos <= 0 THEN Efeito("ValorInvalido", conta, 0)
    ELSE Efeito("", [conta EXCEPT !.saldo = @ + valor.centavos], 0)

\* Mutant: depositar with the test valor < 0.
R_Conta_depositar_aceitaZero(conta, valor, descricao, agora) ==
    IF valor.nan THEN Efeito("decimal.InvalidOperation", conta, 0)
    ELSE IF valor.centavos < 0 THEN Efeito("ValorInvalido", conta, 0)
    ELSE Efeito("",
           [conta EXCEPT
              !.saldo = @ + valor.centavos,
              !.transacoes = registrar(@,
                  Transacao(agora, "DEPOSITO", valor.centavos, descricao,
                            "", conta.numero))],
           1)

\* valor <= 0 on a NaN raises decimal.InvalidOperation.
R_Conta_depositar(conta, valor, descricao, agora) ==
    IF valor.nan THEN Efeito("decimal.InvalidOperation", conta, 0)
    ELSE IF valor.centavos <= 0 THEN Efeito("ValorInvalido", conta, 0)
    ELSE Efeito("",
           [conta EXCEPT
              !.saldo = @ + valor.centavos,
              !.transacoes = registrar(@,
                  Transacao(agora, "DEPOSITO", valor.centavos, descricao,
                            "", conta.numero))],
           1)

\* Mutant: sacar without the test of the balance.
R_Conta_sacar_semVerificarSaldo(conta, valor, descricao, agora) ==
    IF valor.nan THEN Efeito("decimal.InvalidOperation", conta, 0)
    ELSE IF valor.centavos <= 0 THEN Efeito("ValorInvalido", conta, 0)
    ELSE Efeito("",
           [conta EXCEPT
              !.saldo = @ - valor.centavos,
              !.transacoes = registrar(@,
                  Transacao(agora, "SAQUE", valor.centavos, descricao,
                            conta.numero, ""))],
           1)

\* Mutant: sacar with the test saldo <= valor.
R_Conta_sacar_menorOuIgual(conta, valor, descricao, agora) ==
    IF valor.nan THEN Efeito("decimal.InvalidOperation", conta, 0)
    ELSE IF valor.centavos <= 0 THEN Efeito("ValorInvalido", conta, 0)
    ELSE IF conta.saldo <= valor.centavos
         THEN Efeito("SaldoInsuficiente", conta, 0)
    ELSE Efeito("",
           [conta EXCEPT
              !.saldo = @ - valor.centavos,
              !.transacoes = registrar(@,
                  Transacao(agora, "SAQUE", valor.centavos, descricao,
                            conta.numero, ""))],
           1)

\* Mutant: sacar that debits the balance without recording the entry.
R_Conta_sacar_semRegistro(conta, valor, descricao, agora) ==
    IF valor.nan THEN Efeito("decimal.InvalidOperation", conta, 0)
    ELSE IF valor.centavos <= 0 THEN Efeito("ValorInvalido", conta, 0)
    ELSE IF conta.saldo < valor.centavos
         THEN Efeito("SaldoInsuficiente", conta, 0)
    ELSE Efeito("", [conta EXCEPT !.saldo = @ - valor.centavos], 1)

R_Conta_sacar(conta, valor, descricao, agora) ==
    IF valor.nan THEN Efeito("decimal.InvalidOperation", conta, 0)
    ELSE IF valor.centavos <= 0 THEN Efeito("ValorInvalido", conta, 0)
    ELSE IF conta.saldo < valor.centavos
         THEN Efeito("SaldoInsuficiente", conta, 0)
    ELSE Efeito("",
           [conta EXCEPT
              !.saldo = @ - valor.centavos,
              !.transacoes = registrar(@,
                  Transacao(agora, "SAQUE", valor.centavos, descricao,
                            conta.numero, ""))],
           1)

\* What a method of Banco returns: only the field of the method is set.
SemRetorno == [cliente |-> Cliente(0, "", ""), numero |-> "", extrato |-> <<>>]

\* The result of a method of Banco: the exception raised, the ledger after
\* the call, the value returned and the clock after the call.
Resultado(exc, banco, ret, agora) ==
    [exc |-> exc, banco |-> banco, ret |-> ret, agora |-> agora]

R_Banco ==
    [clientes_por_cpf |-> <<>>, contas_por_numero |-> <<>>,
     seq_cliente |-> 1, seq_conta |-> 1001]

\* Mutant: executar that credits the destination before it debits the
\* source.
R_Transferencia_executar_depositoPrimeiro(banco, o, d, valor, agora) ==
    LET contas == banco.contas_por_numero
        origem == contas[o]
        destino == contas[d]
    IN
    IF origem.numero = destino.numero
    THEN Resultado("ValorInvalido", banco, SemRetorno, agora)
    ELSE
    LET p == R_Conta_depositar(destino, valor,
                               "Transferência de " \o origem.numero, agora)
    IN
    IF p.exc # "" THEN Resultado(p.exc, banco, SemRetorno, agora)
    ELSE
    LET contas1 == [contas EXCEPT ![d] = p.conta]
        s == R_Conta_sacar(contas1[o], valor,
                           "Transferência para " \o destino.numero, agora + 1)
        contas2 == [contas1 EXCEPT ![o] = s.conta]
    IN
    IF s.exc # ""
    THEN Resultado(s.exc, [banco EXCEPT !.contas_por_numero = contas2],
                   SemRetorno, agora + 1)
    ELSE
    LET transacao == Transacao(agora + 2, "TRANSFERENCIA", valor.centavos,
                               "Transferência", origem.numero, destino.numero)
        contas3 == [contas2 EXCEPT
                      ![o].transacoes = registrar(@, transacao)]
        contas4 == [contas3 EXCEPT
                      ![d].transacoes = registrar(@, transacao)]
    IN  Resultado("", [banco EXCEPT !.contas_por_numero = contas4],
                  SemRetorno, agora + 3)

\* Mutant: executar without the test of equal accounts.
R_Transferencia_executar_semMesmaConta(banco, o, d, valor, agora) ==
    LET contas == banco.contas_por_numero
        origem == contas[o]
        destino == contas[d]
        s == R_Conta_sacar(origem, valor,
                           "Transferência para " \o destino.numero, agora)
    IN
    IF s.exc # "" THEN Resultado(s.exc, banco, SemRetorno, agora)
    ELSE
    LET contas1 == [contas EXCEPT ![o] = s.conta]
        p == R_Conta_depositar(contas1[d], valor,
                               "Transferência de " \o origem.numero, agora + 1)
        contas2 == [contas1 EXCEPT ![d] = p.conta]
    IN
    IF p.exc # ""
    THEN Resultado(p.exc, [banco EXCEPT !.contas_por_numero = contas2],
                   SemRetorno, agora + 1)
    ELSE
    LET transacao == Transacao(agora + 2, "TRANSFERENCIA", valor.centavos,
                               "Transferência", origem.numero, destino.numero)
        contas3 == [contas2 EXCEPT
                      ![o].transacoes = registrar(@, transacao)]
        contas4 == [contas3 EXCEPT
                      ![d].transacoes = registrar(@, transacao)]
    IN  Resultado("", [banco EXCEPT !.contas_por_numero = contas4],
                  SemRetorno, agora + 3)

\* Mutant: executar that records the TRANSFERENCIA in the log of the
\* source only.
R_Transferencia_executar_soOrigem(banco, o, d, valor, agora) ==
    LET contas == banco.contas_por_numero
        origem == contas[o]
        destino == contas[d]
    IN
    IF origem.numero = destino.numero
    THEN Resultado("ValorInvalido", banco, SemRetorno, agora)
    ELSE
    LET s == R_Conta_sacar(origem, valor,
                           "Transferência para " \o destino.numero, agora)
    IN
    IF s.exc # "" THEN Resultado(s.exc, banco, SemRetorno, agora)
    ELSE
    LET contas1 == [contas EXCEPT ![o] = s.conta]
        p == R_Conta_depositar(contas1[d], valor,
                               "Transferência de " \o origem.numero, agora + 1)
        contas2 == [contas1 EXCEPT ![d] = p.conta]
    IN
    IF p.exc # ""
    THEN Resultado(p.exc, [banco EXCEPT !.contas_por_numero = contas2],
                   SemRetorno, agora + 1)
    ELSE
    LET transacao == Transacao(agora + 2, "TRANSFERENCIA", valor.centavos,
                               "Transferência", origem.numero, destino.numero)
        contas3 == [contas2 EXCEPT
                      ![o].transacoes = registrar(@, transacao)]
    IN  Resultado("", [banco EXCEPT !.contas_por_numero = contas3],
                  SemRetorno, agora + 3)

\* Mutant: executar that debits the source and never credits the
\* destination.
R_Transferencia_executar_semDeposito(banco, o, d, valor, agora) ==
    LET contas == banco.contas_por_numero
        origem == contas[o]
        destino == contas[d]
    IN
    IF origem.numero = destino.numero
    THEN Resultado("ValorInvalido", banco, SemRetorno, agora)
    ELSE
    LET s == R_Conta_sacar(origem, valor,
                           "Transferência para " \o destino.numero, agora)
    IN
    IF s.exc # "" THEN Resultado(s.exc, banco, SemRetorno, agora)
    ELSE
    LET contas1 == [contas EXCEPT ![o] = s.conta]
        transacao == Transacao(agora + 1, "TRANSFERENCIA", valor.centavos,
                               "Transferência", origem.numero, destino.numero)
        contas2 == [contas1 EXCEPT ![o].transacoes = registrar(@, transacao)]
        contas3 == [contas2 EXCEPT ![d].transacoes = registrar(@, transacao)]
    IN  Resultado("", [banco EXCEPT !.contas_por_numero = contas3],
                  SemRetorno, agora + 2)

\* Mutant: executar that creates one TRANSFERENCIA record per log.
R_Transferencia_executar_duasTransacoes(banco, o, d, valor, agora) ==
    LET contas == banco.contas_por_numero
        origem == contas[o]
        destino == contas[d]
    IN
    IF origem.numero = destino.numero
    THEN Resultado("ValorInvalido", banco, SemRetorno, agora)
    ELSE
    LET s == R_Conta_sacar(origem, valor,
                           "Transferência para " \o destino.numero, agora)
    IN
    IF s.exc # "" THEN Resultado(s.exc, banco, SemRetorno, agora)
    ELSE
    LET contas1 == [contas EXCEPT ![o] = s.conta]
        p == R_Conta_depositar(contas1[d], valor,
                               "Transferência de " \o origem.numero, agora + 1)
        contas2 == [contas1 EXCEPT ![d] = p.conta]
    IN
    IF p.exc # ""
    THEN Resultado(p.exc, [banco EXCEPT !.contas_por_numero = contas2],
                   SemRetorno, agora + 1)
    ELSE
    LET saida == Transacao(agora + 2, "TRANSFERENCIA", valor.centavos,
                           "Transferência", origem.numero, destino.numero)
        entrada == Transacao(agora + 3, "TRANSFERENCIA", valor.centavos,
                             "Transferência", origem.numero, destino.numero)
        contas3 == [contas2 EXCEPT ![o].transacoes = registrar(@, saida)]
        contas4 == [contas3 EXCEPT ![d].transacoes = registrar(@, entrada)]
    IN  Resultado("", [banco EXCEPT !.contas_por_numero = contas4],
                  SemRetorno, agora + 4)

\* Transferencia.executar on the accounts at positions o and d of the
\* ledger (the two Conta objects the Transferencia holds by reference).
R_Transferencia_executar(banco, o, d, valor, agora) ==
    LET contas == banco.contas_por_numero
        origem == contas[o]
        destino == contas[d]
    IN
    IF origem.numero = destino.numero
    THEN Resultado("ValorInvalido", banco, SemRetorno, agora)
    ELSE
    LET s == R_Conta_sacar(origem, valor,
                           "Transferência para " \o destino.numero, agora)
    IN
    IF s.exc # "" THEN Resultado(s.exc, banco, SemRetorno, agora)
    ELSE
    LET contas1 == [contas EXCEPT ![o] = s.conta]
        p == R_Conta_depositar(contas1[d], valor,
                               "Transferência de " \o origem.numero, agora + 1)
        contas2 == [contas1 EXCEPT ![d] = p.conta]
    IN
    IF p.exc # ""
    THEN Resultado(p.exc, [banco EXCEPT !.contas_por_numero = contas2],
                   SemRetorno, agora + 1)
    ELSE
    LET transacao == Transacao(agora + 2, "TRANSFERENCIA", valor.centavos,
                               "Transferência", origem.numero, destino.numero)
        contas3 == [contas2 EXCEPT
                      ![o].transacoes = registrar(@, transacao)]
        contas4 == [contas3 EXCEPT
                      ![d].transacoes = registrar(@, transacao)]
    IN  Resultado("", [banco EXCEPT !.contas_por_numero = contas4],
                  SemRetorno, agora + 3)

\* Mutant: criar_cliente without the test of a registered cpf; the dict
\* keeps the place of the key and takes the new value.
R_Banco_criar_cliente_sobrescreve(banco, nome, cpf, agora) ==
    LET i == Indice(banco.clientes_por_cpf, "cpf", cpf)
        c == Cliente(banco.seq_cliente, nome, cpf)
    IN
    Resultado("",
              [banco EXCEPT
                 !.clientes_por_cpf =
                    IF i = 0 THEN Append(@, c) ELSE [@ EXCEPT ![i] = c],
                 !.seq_cliente = @ + 1],
              [SemRetorno EXCEPT !.cliente = c], agora)

R_Banco_criar_cliente(banco, nome, cpf, agora) ==
    LET i == Indice(banco.clientes_por_cpf, "cpf", cpf) IN
    IF i # 0
    THEN Resultado("", banco,
                   [SemRetorno EXCEPT !.cliente = banco.clientes_por_cpf[i]],
                   agora)
    ELSE
    LET c == Cliente(banco.seq_cliente, nome, cpf) IN
    Resultado("",
              [banco EXCEPT !.clientes_por_cpf = Append(@, c),
                            !.seq_cliente = @ + 1],
              [SemRetorno EXCEPT !.cliente = c], agora)

\* Mutant: abrir_conta without the increment of _seq_conta.
R_Banco_abrir_conta_semIncremento(banco, cpf, agora) ==
    LET i == Indice(banco.clientes_por_cpf, "cpf", cpf) IN
    IF i = 0
    THEN Resultado("EntidadeNaoEncontrada", banco, SemRetorno, agora)
    ELSE
    LET numero == str(banco.seq_conta)
        conta == R_Conta(numero, banco.clientes_por_cpf[i])
        j == Indice(banco.contas_por_numero, "numero", numero)
    IN
    Resultado("",
              [banco EXCEPT
                 !.contas_por_numero =
                    IF j = 0 THEN Append(@, conta) ELSE [@ EXCEPT ![j] = conta]],
              [SemRetorno EXCEPT !.numero = numero], agora)

R_Banco_abrir_conta(banco, cpf, agora) ==
    LET i == Indice(banco.clientes_por_cpf, "cpf", cpf) IN
    IF i = 0
    THEN Resultado("EntidadeNaoEncontrada", banco, SemRetorno, agora)
    ELSE
    LET numero == str(banco.seq_conta)
        conta == R_Conta(numero, banco.clientes_por_cpf[i])
        j == Indice(banco.contas_por_numero, "numero", numero)
    IN
    Resultado("",
              [banco EXCEPT
                 !.contas_por_numero =
                    IF j = 0 THEN Append(@, conta) ELSE [@ EXCEPT ![j] = conta],
                 !.seq_conta = @ + 1],
              [SemRetorno EXCEPT !.numero = numero], agora)

\* Position of the account in the ledger, 0 when buscar_conta raises.
R_Banco_buscar_conta(banco, numero) ==
    Indice(banco.contas_por_numero, "numero", numero)

\* Mutant: depositar with one repository shared by all the accounts, so
\* that the entry shows in every log.
R_Banco_depositar_repositorioPartilhado(banco, numero, valor, agora) ==
    LET i == R_Banco_buscar_conta(banco, numero) IN
    IF i = 0 THEN Resultado("EntidadeNaoEncontrada", banco, SemRetorno, agora)
    ELSE
    LET v == R_to_money(valor) IN
    IF v.exc # "" THEN Resultado(v.exc, banco, SemRetorno, agora)
    ELSE
    LET e == R_Conta_depositar(banco.contas_por_numero[i], v, "Depósito", agora)
        contas == [banco.contas_por_numero EXCEPT ![i] = e.conta]
    IN  Resultado(e.exc,
                  [banco EXCEPT !.contas_por_numero =
                      [k \in 1..Len(contas) |->
                          [contas[k] EXCEPT
                              !.transacoes = e.conta.transacoes]]],
                  SemRetorno, agora + e.criadas)

R_Banco_depositar(banco, numero, valor, agora) ==
    LET i == R_Banco_buscar_conta(banco, numero) IN
    IF i = 0 THEN Resultado("EntidadeNaoEncontrada", banco, SemRetorno, agora)
    ELSE
    LET v == R_to_money(valor) IN
    IF v.exc # "" THEN Resultado(v.exc, banco, SemRetorno, agora)
    ELSE
    LET e == R_Conta_depositar(banco.contas_por_numero[i], v, "Depósito", agora)
    IN  Resultado(e.exc, [banco EXCEPT !.contas_por_numero[i] = e.conta],
                  SemRetorno, agora + e.criadas)

R_Banco_sacar(banco, numero, valor, agora) ==
    LET i == R_Banco_buscar_conta(banco, numero) IN
    IF i = 0 THEN Resultado("EntidadeNaoEncontrada", banco, SemRetorno, agora)
    ELSE
    LET v == R_to_money(valor) IN
    IF v.exc # "" THEN Resultado(v.exc, banco, SemRetorno, agora)
    ELSE
    LET e == R_Conta_sacar(banco.contas_por_numero[i], v, "Saque", agora)
    IN  Resultado(e.exc, [banco EXCEPT !.contas_por_numero[i] = e.conta],
                  SemRetorno, agora + e.criadas)

\* The arguments of Transferencia(...) are evaluated left to right:
\* buscar_conta(origem), buscar_conta(destino), _to_money(valor).
R_Banco_transferir(banco, origem, destino, valor, agora) ==
    LET o == R_Banco_buscar_conta(banco, origem)
        d == R_Banco_buscar_conta(banco, destino)
    IN
    IF o = 0 \/ d = 0
    THEN Resultado("EntidadeNaoEncontrada", banco, SemRetorno, agora)
    ELSE
    LET v == R_to_money(valor) IN
    IF v.exc # "" THEN Resultado(v.exc, banco, SemRetorno, agora)
    ELSE R_Transferencia_executar(banco, o, d, v, agora)

R_Banco_extrato(banco, numero, agora) ==
    LET i == R_Banco_buscar_conta(banco, numero) IN
    IF i = 0 THEN Resultado("EntidadeNaoEncontrada", banco, SemRetorno, agora)
    ELSE Resultado("", banco,
                   [SemRetorno EXCEPT
                      !.extrato = listar(banco.contas_por_numero[i].transacoes)],
                   agora)

\* The dict m of listar_clientes_e_contas after the loop over the
\* accounts: per key, in insertion order, the accounts appended under it.
RECURSIVE Agrupar(_, _)
Agrupar(contas, campo) ==
    IF contas = <<>> THEN <<>>
    ELSE LET m == Agrupar(SubSeq(contas, 1, Len(contas) - 1), campo)
             conta == contas[Len(contas)]
             i == Indice(m, "chave", conta.cliente[campo])
         IN  IF i = 0
             THEN Append(m, [chave |-> conta.cliente[campo],
                             contas |-> <<conta>>])
             ELSE [m EXCEPT ![i].contas = Append(@, conta)]

\* Mutant: listar_clientes_e_contas that groups the accounts by the name
\* of the owner.
R_Banco_listar_clientes_e_contas_porNome(banco) ==
    LET m == Agrupar(banco.contas_por_numero, "nome") IN
    [k \in 1..Len(banco.clientes_por_cpf) |->
        LET cliente == banco.clientes_por_cpf[k]
            i == Indice(m, "chave", cliente.nome)
        IN  [cliente |-> cliente,
             contas |-> IF i = 0 THEN <<>> ELSE m[i].contas]]

\* The list of (cliente, m.get(cliente.cpf, [])) over the values of
\* _clientes_por_cpf.
R_Banco_listar_clientes_e_contas(banco) ==
    LET m == Agrupar(banco.contas_por_numero, "cpf") IN
    [k \in 1..Len(banco.clientes_por_cpf) |->
        LET cliente == banco.clientes_por_cpf[k]
            i == Indice(m, "chave", cliente.cpf)
        IN  [cliente |-> cliente,
             contas |-> IF i = 0 THEN <<>> ELSE m[i].contas]]

-----------------------------------------------------------------------------
(* original/OriginalClasses.py                                             *)

O_Conta(numero, cliente) ==
    [numero |-> numero, cliente |-> cliente, saldo |-> 0, historico |-> <<>>]

O_Conta_depositar(conta, valor, descricao, agora) ==
    IF valor.nan THEN Efeito("decimal.InvalidOperation", conta, 0)
    ELSE IF valor.centavos <= 0 THEN Efeito("ValorInvalido", conta, 0)
    ELSE Efeito("",
           [conta EXCEPT
              !.saldo = @ + valor.centavos,
              !.historico = Append(@,
                  Transacao(agora, "DEPOSITO", valor.centavos, descricao,
                            "", conta.numero))],
           1)

\* Mutant: sacar that records the account as the destination.
O_Conta_sacar_comDestino(conta, valor, descricao, agora) ==
    IF valor.nan THEN Efeito("decimal.InvalidOperation", conta, 0)
    ELSE IF valor.centavos <= 0 THEN Efeito("ValorInvalido", conta, 0)
    ELSE IF conta.saldo < valor.centavos
         THEN Efeito("SaldoInsuficiente", conta, 0)
    ELSE Efeito("",
           [conta EXCEPT
              !.saldo = @ - valor.centavos,
              !.historico = Append(@,
                  Transacao(agora, "SAQUE", valor.centavos, descricao,
                            "", conta.numero))],
           1)

O_Conta_sacar(conta, valor, descricao, agora) ==
    IF valor.nan THEN Efeito("decimal.InvalidOperation", conta, 0)
    ELSE IF valor.centavos <= 0 THEN Efeito("ValorInvalido", conta, 0)
    ELSE IF conta.saldo < valor.centavos
         THEN Efeito("SaldoInsuficiente", conta, 0)
    ELSE Efeito("",
           [conta EXCEPT
              !.saldo = @ - valor.centavos,
              !.historico = Append(@,
                  Transacao(agora, "SAQUE", valor.centavos, descricao,
                            conta.numero, ""))],
           1)

O_Banco ==
    [clientes_por_cpf |-> <<>>, contas_por_numero |-> <<>>,
     seq_cliente |-> 1, seq_conta |-> 1001]

O_Banco_criar_cliente(banco, nome, cpf, agora) ==
    LET i == Indice(banco.clientes_por_cpf, "cpf", cpf) IN
    IF i # 0
    THEN Resultado("", banco,
                   [SemRetorno EXCEPT !.cliente = banco.clientes_por_cpf[i]],
                   agora)
    ELSE
    LET c == Cliente(banco.seq_cliente, nome, cpf) IN
    Resultado("",
              [banco EXCEPT !.clientes_por_cpf = Append(@, c),
                            !.seq_cliente = @ + 1],
              [SemRetorno EXCEPT !.cliente = c], agora)

O_Banco_abrir_conta(banco, cpf, agora) ==
    LET i == Indice(banco.clientes_por_cpf, "cpf", cpf) IN
    IF i = 0
    THEN Resultado("EntidadeNaoEncontrada", banco, SemRetorno, agora)
    ELSE
    LET numero == str(banco.seq_conta)
        conta == O_Conta(numero, banco.clientes_por_cpf[i])
        j == Indice(banco.contas_por_numero, "numero", numero)
    IN
    Resultado("",
              [banco EXCEPT
                 !.contas_por_numero =
                    IF j = 0 THEN Append(@, conta) ELSE [@ EXCEPT ![j] = conta],
                 !.seq_conta = @ + 1],
              [SemRetorno EXCEPT !.numero = numero], agora)

O_Banco_buscar_conta(banco, numero) ==
    Indice(banco.contas_por_numero, "numero", numero)

O_Banco_depositar(banco, numero, valor, agora) ==
    LET i == O_Banco_buscar_conta(banco, numero) IN
    IF i = 0 THEN Resultado("EntidadeNaoEncontrada", banco, SemRetorno, agora)
    ELSE
    LET v == O_to_money(valor) IN
    IF v.exc # "" THEN Resultado(v.exc, banco, SemRetorno, agora)
    ELSE
    LET e == O_Conta_depositar(banco.contas_por_numero[i], v, "depósito", agora)
    IN  Resultado(e.exc, [banco EXCEPT !.contas_por_numero[i] = e.conta],
                  SemRetorno, agora + e.criadas)

O_Banco_sacar(banco, numero, valor, agora) ==
    LET i == O_Banco_buscar_conta(banco, numero) IN
    IF i = 0 THEN Resultado("EntidadeNaoEncontrada", banco, SemRetorno, agora)
    ELSE
    LET v == O_to_money(valor) IN
    IF v.exc # "" THEN Resultado(v.exc, banco, SemRetorno, agora)
    ELSE
    LET e == O_Conta_sacar(banco.contas_por_numero[i], v, "saque", agora)
    IN  Resultado(e.exc, [banco EXCEPT !.contas_por_numero[i] = e.conta],
                  SemRetorno, agora + e.criadas)

\* origem == destino on the two numbers comes first, then _to_money, then
\* the two lookups.
O_Banco_transferir(banco, origem, destino, valor, agora) ==
    IF origem = destino
    THEN Resultado("ValorInvalido", banco, SemRetorno, agora)
    ELSE
    LET v == O_to_money(valor) IN
    IF v.exc # "" THEN Resultado(v.exc, banco, SemRetorno, agora)
    ELSE
    LET o == O_Banco_buscar_conta(banco, origem)
        d == O_Banco_buscar_conta(banco, destino)
    IN
    IF o = 0 \/ d = 0
    THEN Resultado("EntidadeNaoEncontrada", banco, SemRetorno, agora)
    ELSE
    LET contas == banco.contas_por_numero
        s == O_Conta_sacar(contas[o], v, "transferência para " \o destino, agora)
    IN
    IF s.exc # "" THEN Resultado(s.exc, banco, SemRetorno, agora)
    ELSE
    LET contas1 == [contas EXCEPT ![o] = s.conta]
        p == O_Conta_depositar(contas1[d], v, "transferência de " \o origem,
                               agora + 1)
        contas2 == [contas1 EXCEPT ![d] = p.conta]
    IN
    IF p.exc # ""
    THEN Resultado(p.exc, [banco EXCEPT !.contas_por_numero = contas2],
                   SemRetorno, agora + 1)
    ELSE
    LET t == Transacao(agora + 2, "TRANSFERENCIA", v.centavos, "transferência",
                       origem, destino)
        contas3 == [contas2 EXCEPT ![o].historico = Append(@, t)]
        contas4 == [contas3 EXCEPT ![d].historico = Append(@, t)]
    IN  Resultado("", [banco EXCEPT !.contas_por_numero = contas4],
                  SemRetorno, agora + 3)

O_Banco_extrato(banco, numero, agora) ==
    LET i == O_Banco_buscar_conta(banco, numero) IN
    IF i = 0 THEN Resultado("EntidadeNaoEncontrada", banco, SemRetorno, agora)
    ELSE Resultado("", banco,
                   [SemRetorno EXCEPT
                      !.extrato = banco.contas_por_numero[i].historico],
                   agora)

\* The list of (cliente, m.get(cpf, [])) over the items of
\* _clientes_por_cpf, whose key is the cpf the customer was created with.
O_Banco_listar_clientes_e_contas(banco) ==
    LET m == Agrupar(banco.contas_por_numero, "cpf") IN
    [k \in 1..Len(banco.clientes_por_cpf) |->
        LET cliente == banco.clientes_por_cpf[k]
            cpf == cliente.cpf
            i == Indice(m, "chave", cpf)
        IN  [cliente |-> cliente,
             contas |-> IF i = 0 THEN <<>> ELSE m[i].contas]]

-----------------------------------------------------------------------------
(* The two ledgers, constructed empty and driven by the same calls.  A     *)
(* call that raises leaves a ledger as the method left it at the raise.    *)

\* Account numbers a caller may name: those that can be opened and one
\* that never is.
Numeros == { str(n) : n \in 1001 .. 1001 + MaxContas }

\* The ledgers are given no amount outside a call: bruto and dinheiro
\* belong to the specification of _to_money alone, below.
Init ==
    /\ original = O_Banco
    /\ refatorado = R_Banco
    /\ agoraO = 0
    /\ agoraR = 0
    /\ bruto = Numero("str", 0, 0)
    /\ dinheiro = <<>>

\* The money a ledger holds: the sum of the balances of its accounts.
RECURSIVE Total(_)
Total(contas) ==
    IF contas = <<>> THEN 0
    ELSE Total(SubSeq(contas, 1, Len(contas) - 1)) + contas[Len(contas)].saldo

\* The two results o and r of a call are within the bounds: the call is
\* made while the clocks are, and the ledgers after it are.
Dentro(o, r) ==
    /\ agoraO <= MaxAgora
    /\ agoraR <= MaxAgora
    /\ Total(o.banco.contas_por_numero) <= MaxTotal
    /\ Total(r.banco.contas_por_numero) <= MaxTotal
    /\ Len(o.banco.contas_por_numero) <= MaxContas
    /\ Len(r.banco.contas_por_numero) <= MaxContas

\* Each action makes the same call on both ledgers.
CriarCliente ==
    \E nome \in Nomes, cpf \in CPFs :
        LET o == O_Banco_criar_cliente(original, nome, cpf, agoraO)
            r == R_Banco_criar_cliente(refatorado, nome, cpf, agoraR)
        IN  /\ Dentro(o, r)
            /\ original' = o.banco
            /\ refatorado' = r.banco
            /\ agoraO' = o.agora
            /\ agoraR' = r.agora
            /\ UNCHANGED <<bruto, dinheiro>>

AbrirConta ==
    \E cpf \in CPFs :
        LET o == O_Banco_abrir_conta(original, cpf, agoraO)
            r == R_Banco_abrir_conta(refatorado, cpf, agoraR)
        IN  /\ Dentro(o, r)
            /\ original' = o.banco
            /\ refatorado' = r.banco
            /\ agoraO' = o.agora
            /\ agoraR' = r.agora
            /\ UNCHANGED <<bruto, dinheiro>>

Depositar ==
    \E numero \in Numeros, valor \in Valores :
        LET o == O_Banco_depositar(original, numero, valor, agoraO)
            r == R_Banco_depositar(refatorado, numero, valor, agoraR)
        IN  /\ Dentro(o, r)
            /\ original' = o.banco
            /\ refatorado' = r.banco
            /\ agoraO' = o.agora
            /\ agoraR' = r.agora
            /\ UNCHANGED <<bruto, dinheiro>>

Sacar ==
    \E numero \in Numeros, valor \in Valores :
        LET o == O_Banco_sacar(original, numero, valor, agoraO)
            r == R_Banco_sacar(refatorado, numero, valor, agoraR)
        IN  /\ Dentro(o, r)
            /\ original' = o.banco
            /\ refatorado' = r.banco
            /\ agoraO' = o.agora
            /\ agoraR' = r.agora
            /\ UNCHANGED <<bruto, dinheiro>>

Transferir ==
    \E origem \in Numeros, destino \in Numeros, valor \in Valores :
        LET o == O_Banco_transferir(original, origem, destino, valor, agoraO)
            r == R_Banco_transferir(refatorado, origem, destino, valor, agoraR)
        IN  /\ Dentro(o, r)
            /\ original' = o.banco
            /\ refatorado' = r.banco
            /\ agoraO' = o.agora
            /\ agoraR' = r.agora
            /\ UNCHANGED <<bruto, dinheiro>>

Extrato ==
    \E numero \in Numeros :
        LET o == O_Banco_extrato(original, numero, agoraO)
            r == R_Banco_extrato(refatorado, numero, agoraR)
        IN  /\ Dentro(o, r)
            /\ original' = o.banco
            /\ refatorado' = r.banco
            /\ agoraO' = o.agora
            /\ agoraR' = r.agora
            /\ UNCHANGED <<bruto, dinheiro>>

\* listar_clientes_e_contas builds its list and returns: it assigns to no
\* field of the ledger.
ListarClientesEContas ==
    LET o == O_Banco_listar_clientes_e_contas(original)
        r == R_Banco_listar_clientes_e_contas(refatorado)
    IN  /\ agoraO <= MaxAgora
        /\ agoraR <= MaxAgora
        /\ Len(o) >= 0 /\ Len(r) >= 0
        /\ UNCHANGED vars

Next ==
    \/ CriarCliente
    \/ AbrirConta
    \/ Depositar
    \/ Sacar
    \/ Transferir
    \/ Extrato
    \/ ListarClientesEContas

Spec == Init /\ [][Next]_vars

-----------------------------------------------------------------------------
(* _to_money alone: a raw amount is normalized by both variants, and the   *)
(* Decimal returned can be normalized again.                               *)

\* The literals of spec.md section 8 (10, 10.00, 10.001), ties beyond
\* MaxCoef, and a literal whose quantized coefficient has 29 digits.
Exemplos ==
    { Numero("str", 10, 0), Numero("str", 1000, 2), Numero("str", 10001, 3),
      Numero("str", 1005, 3), Numero("str", 1015, 3), Numero("str", -1005, 3),
      Numero("str", 1, -26) }

Brutos ==
    { Numero(tipo, coef, casas) :
          tipo \in {"str", "Decimal"}, coef \in -MaxCoef..MaxCoef,
          casas \in 0..MaxCasas }
    \cup Exemplos
    \cup { Especial("str", "lixo"), Especial("str", "nan"),
           Especial("str", "infinito"), Especial("Decimal", "infinito") }

InitDinheiro ==
    /\ original = O_Banco
    /\ refatorado = R_Banco
    /\ agoraO = 0
    /\ agoraR = 0
    /\ bruto \in Brutos
    /\ dinheiro = <<>>

\* _to_money(bruto) in both variants
Normalizar ==
    /\ dinheiro = <<>>
    /\ dinheiro' = <<[o |-> O_to_money(bruto), r |-> R_to_money(bruto)]>>
    /\ UNCHANGED <<original, refatorado, agoraO, agoraR, bruto>>

\* _to_money of the Decimal that _to_money returned: a Decimal of
\* exponent -2, whose str() is the literal with its two places.
Renormalizar ==
    /\ dinheiro # <<>>
    /\ dinheiro[1].r.exc = "" /\ ~dinheiro[1].r.nan
    /\ LET devolvido == Numero("Decimal", dinheiro[1].r.centavos, 2) IN
       /\ bruto' = devolvido
       /\ dinheiro' = <<[o |-> O_to_money(devolvido),
                         r |-> R_to_money(devolvido)]>>
    /\ UNCHANGED <<original, refatorado, agoraO, agoraR>>

NextDinheiro ==
    \/ Normalizar
    \/ Renormalizar

SpecDinheiro == InitDinheiro /\ [][NextDinheiro]_vars

-----------------------------------------------------------------------------
(* What an observer sees of a ledger, the same for both variants: the      *)
(* accounts with their logs, whatever the field that holds the log.        *)

O_visao(banco) ==
    [clientes |-> banco.clientes_por_cpf,
     contas |-> [i \in 1..Len(banco.contas_por_numero) |->
                   LET c == banco.contas_por_numero[i] IN
                   [numero |-> c.numero, cliente |-> c.cliente,
                    saldo |-> c.saldo, log |-> c.historico]],
     seq_cliente |-> banco.seq_cliente, seq_conta |-> banco.seq_conta]

R_visao(banco) ==
    [clientes |-> banco.clientes_por_cpf,
     contas |-> [i \in 1..Len(banco.contas_por_numero) |->
                   LET c == banco.contas_por_numero[i] IN
                   [numero |-> c.numero, cliente |-> c.cliente,
                    saldo |-> c.saldo, log |-> listar(c.transacoes)]],
     seq_cliente |-> banco.seq_cliente, seq_conta |-> banco.seq_conta]

O_agora == O_visao(original)
R_agora == R_visao(refatorado)

\* The account of a view under a number (the number is one of the view).
ContaDe(visao, numero) == visao.contas[Indice(visao.contas, "numero", numero)]

Aberta(visao, numero) == Indice(visao.contas, "numero", numero) # 0

Abertas(visao) == { visao.contas[i].numero : i \in 1..Len(visao.contas) }

Ultima(log) == log[Len(log)]

\* The amounts _to_money accepts as numbers, in centavos, with the inputs
\* that give them (both variants normalize a number alike).
Centavos(valor) == R_to_money(valor).centavos
Numericos == { v \in Valores : v.classe = "numero" }

\* (kind, amount, source, destination) of the entries of a log
Essencial(log) ==
    [i \in 1..Len(log) |->
        [tipo |-> log[i].tipo, valor |-> log[i].valor,
         origem |-> log[i].origem, destino |-> log[i].destino]]

-----------------------------------------------------------------------------
(* C1 *)

\* -amount in the log of the source, +amount in the log of the destination
TransferenciaAssinada(t, numero) ==
    IF t.origem = numero THEN -t.valor
    ELSE IF t.destino = numero THEN t.valor ELSE 0

\* The sum of the signed amounts of a log, as the log of account numero:
\* DEPOSITO +amount, SAQUE -amount, and TRANSFERENCIA signed when
\* comTransferencias and nothing otherwise.
RECURSIVE Soma(_, _, _)
Soma(log, numero, comTransferencias) ==
    IF log = <<>> THEN 0
    ELSE LET t == Ultima(log)
             e == CASE t.tipo = "DEPOSITO" -> t.valor
                    [] t.tipo = "SAQUE" -> -t.valor
                    [] t.tipo = "TRANSFERENCIA" ->
                         IF comTransferencias
                         THEN TransferenciaAssinada(t, numero) ELSE 0
         IN  Soma(SubSeq(log, 1, Len(log) - 1), numero, comTransferencias) + e

SaldoIgualSoma(visao, comTransferencias) ==
    \A i \in 1..Len(visao.contas) :
        LET c == visao.contas[i] IN
        c.saldo = Soma(c.log, c.numero, comTransferencias)

\* C1 as claimed: in every reachable state every account's balance is the
\* sum of the signed amounts of its log, DEPOSITO +amount, SAQUE -amount,
\* TRANSFERENCIA -amount at its source and +amount at its destination.
C1_SaldoIgualSomaComTransferencias ==
    /\ SaldoIgualSoma(O_agora, TRUE)
    /\ SaldoIgualSoma(R_agora, TRUE)

\* C1 as amended: in every reachable state every account's balance is the
\* sum of the signed amounts of its log, DEPOSITO +amount, SAQUE -amount,
\* a TRANSFERENCIA entry counting nothing (the SAQUE and the DEPOSITO
\* entries that the transfer also appends carry its effect).
C1_SaldoIgualSomaSemTransferencias ==
    /\ SaldoIgualSoma(O_agora, FALSE)
    /\ SaldoIgualSoma(R_agora, FALSE)

\* A transfer has been committed: both ledgers hold an account whose log
\* ends with a TRANSFERENCIA entry, and a positive balance.
C1_Witness ==
    /\ \E i \in 1..Len(R_agora.contas) :
          LET c == R_agora.contas[i] IN
          /\ c.log # <<>> /\ Ultima(c.log).tipo = "TRANSFERENCIA"
          /\ c.saldo > 0
    /\ \E i \in 1..Len(O_agora.contas) :
          LET c == O_agora.contas[i] IN
          /\ c.log # <<>> /\ Ultima(c.log).tipo = "TRANSFERENCIA"
          /\ c.saldo > 0

-----------------------------------------------------------------------------
(* C2 *)

SaldosNaoNegativos(visao) ==
    \A i \in 1..Len(visao.contas) : visao.contas[i].saldo >= 0

\* The account a successful abrir_conta returns has balance 0.00 and an
\* empty log.
AbertaVazia(resultado, visao) ==
    resultado.exc = "" =>
        LET c == ContaDe(visao, resultado.ret.numero) IN
        c.saldo = 0 /\ c.log = <<>>

\* C2: in every reachable state every account's balance is >= 0.00, and
\* an account just opened (from that state, for any taxId) has balance 0.00
\* and an empty log.
C2_SaldoNuncaNegativo ==
    /\ SaldosNaoNegativos(O_agora)
    /\ SaldosNaoNegativos(R_agora)
    /\ \A cpf \in CPFs :
          LET o == O_Banco_abrir_conta(original, cpf, agoraO)
              r == R_Banco_abrir_conta(refatorado, cpf, agoraR)
          IN  /\ AbertaVazia(o, O_visao(o.banco))
              /\ AbertaVazia(r, R_visao(r.banco))

\* An account has been emptied to exactly 0.00 by a withdrawal, beside an
\* account that was opened and never used.
C2_Witness ==
    /\ \E i \in 1..Len(R_agora.contas) :
          LET c == R_agora.contas[i] IN
          c.saldo = 0 /\ c.log # <<>> /\ Ultima(c.log).tipo = "SAQUE"
    /\ \E i \in 1..Len(R_agora.contas) :
          LET c == R_agora.contas[i] IN c.saldo = 0 /\ c.log = <<>>

-----------------------------------------------------------------------------
(* C3 *)

\* C3: whenever a transfer fails (same account, unknown account, amount
\* unparseable or not positive, insufficient funds, or any other
\* exception), every account of the ledger, the source and the destination
\* among them, has the balance and the log it had before the call.
C3_TransferenciaFalhaSemEfeito ==
    \A origem \in Numeros, destino \in Numeros, valor \in Valores :
        LET o == O_Banco_transferir(original, origem, destino, valor, agoraO)
            r == R_Banco_transferir(refatorado, origem, destino, valor, agoraR)
        IN  /\ o.exc # "" => O_visao(o.banco).contas = O_agora.contas
            /\ r.exc # "" => R_visao(r.banco).contas = R_agora.contas

\* A transfer between two different open accounts fails for insufficient
\* funds in a state where the destination already has funds and a log, and
\* a transfer of a non-positive amount fails there too.
C3_Witness ==
    \E origem \in Abertas(R_agora), destino \in Abertas(R_agora) :
        /\ origem # destino
        /\ ContaDe(R_agora, destino).saldo > 0
        /\ \E valor \in Numericos :
              /\ R_Banco_transferir(refatorado, origem, destino, valor,
                                    agoraR).exc = "SaldoInsuficiente"
              /\ O_Banco_transferir(original, origem, destino, valor,
                                    agoraO).exc = "SaldoInsuficiente"
        /\ \E valor \in Numericos :
              /\ Centavos(valor) <= 0
              /\ R_Banco_transferir(refatorado, origem, destino, valor,
                                    agoraR).exc = "ValorInvalido"

-----------------------------------------------------------------------------
(* C4 *)

KindsDoBanco == {"ValorInvalido", "SaldoInsuficiente", "EntidadeNaoEncontrada"}

-----------------------------------------------------------------------------
(* C5 *)

\* What C5 compares of a ledger: the customers, and per account its
\* number, balance and log of (kind, amount, source, destination).
Comparavel(visao) ==
    [clientes |-> visao.clientes,
     contas |-> [i \in 1..Len(visao.contas) |->
                   [numero |-> visao.contas[i].numero,
                    saldo |-> visao.contas[i].saldo,
                    log |-> Essencial(visao.contas[i].log)]]]

\* The two results of one call agree: same outcome, same value returned,
\* same ledger after it.
Concordam(o, r) ==
    /\ o.exc = r.exc
    /\ o.ret.cliente = r.ret.cliente
    /\ o.ret.numero = r.ret.numero
    /\ Essencial(o.ret.extrato) = Essencial(r.ret.extrato)
    /\ Comparavel(O_visao(o.banco)) = Comparavel(R_visao(r.banco))

\* C5 as claimed: the two ledgers are in the same state, and every call
\* made on both has the same outcome in both (success, or failure with
\* the same error kind) and leaves them in the same state.
C5_VariantesIdenticas ==
    /\ Comparavel(O_agora) = Comparavel(R_agora)
    /\ \A nome \in Nomes, cpf \in CPFs :
          Concordam(O_Banco_criar_cliente(original, nome, cpf, agoraO),
                    R_Banco_criar_cliente(refatorado, nome, cpf, agoraR))
    /\ \A cpf \in CPFs :
          Concordam(O_Banco_abrir_conta(original, cpf, agoraO),
                    R_Banco_abrir_conta(refatorado, cpf, agoraR))
    /\ \A numero \in Numeros :
          Concordam(O_Banco_extrato(original, numero, agoraO),
                    R_Banco_extrato(refatorado, numero, agoraR))
    /\ \A numero \in Numeros, valor \in Valores :
          /\ Concordam(O_Banco_depositar(original, numero, valor, agoraO),
                       R_Banco_depositar(refatorado, numero, valor, agoraR))
          /\ Concordam(O_Banco_sacar(original, numero, valor, agoraO),
                       R_Banco_sacar(refatorado, numero, valor, agoraR))
    /\ \A origem \in Numeros, destino \in Numeros, valor \in Valores :
          Concordam(
              O_Banco_transferir(original, origem, destino, valor, agoraO),
              R_Banco_transferir(refatorado, origem, destino, valor, agoraR))

-----------------------------------------------------------------------------
(* C6 *)

\* sacar of a numeric amount on an open account: more than the balance
\* fails with SaldoInsuficiente and changes nothing; a positive amount up
\* to the balance succeeds.
SaqueConformeSaldo(resultado, antes, depois, numero, centavos) ==
    /\ centavos > ContaDe(antes, numero).saldo =>
          resultado.exc = "SaldoInsuficiente" /\ depois = antes
    /\ (centavos > 0 /\ centavos <= ContaDe(antes, numero).saldo) =>
          resultado.exc = ""

\* C6: withdrawing more than the account's balance always fails with
\* SaldoInsuficiente (InsufficientFunds) and leaves balance and log
\* unchanged; withdrawing a positive amount equal to or less than the
\* balance succeeds.
C6_SaqueAcimaDoSaldo ==
    \A numero \in Abertas(R_agora), valor \in Numericos :
        LET o == O_Banco_sacar(original, numero, valor, agoraO)
            r == R_Banco_sacar(refatorado, numero, valor, agoraR)
        IN  /\ SaqueConformeSaldo(o, O_agora, O_visao(o.banco), numero,
                                  Centavos(valor))
            /\ SaqueConformeSaldo(r, R_agora, R_visao(r.banco), numero,
                                  Centavos(valor))

\* An account with a log holds exactly one amount and less than another:
\* it can be emptied to 0.00 and it refuses the larger withdrawal.
C6_Witness ==
    \E numero \in Abertas(R_agora), v \in Numericos, w \in Numericos :
        /\ ContaDe(R_agora, numero).log # <<>>
        /\ Centavos(v) = ContaDe(R_agora, numero).saldo
        /\ Centavos(v) > 0
        /\ R_Banco_sacar(refatorado, numero, v, agoraR).exc = ""
        /\ Centavos(w) > ContaDe(R_agora, numero).saldo
        /\ R_Banco_sacar(refatorado, numero, w, agoraR).exc
              = "SaldoInsuficiente"

-----------------------------------------------------------------------------
(* C7 *)

\* C7: a deposit or a withdrawal on an open account whose normalized
\* amount is <= 0 fails with ValorInvalido (InvalidAmount) and leaves the
\* account's balance and log unchanged, whatever the balance.
C7_ValorNaoPositivo ==
    \A numero \in Abertas(R_agora), valor \in Numericos :
        Centavos(valor) <= 0 =>
            LET od == O_Banco_depositar(original, numero, valor, agoraO)
                rd == R_Banco_depositar(refatorado, numero, valor, agoraR)
                os == O_Banco_sacar(original, numero, valor, agoraO)
                rs == R_Banco_sacar(refatorado, numero, valor, agoraR)
            IN  /\ od.exc = "ValorInvalido" /\ O_visao(od.banco) = O_agora
                /\ rd.exc = "ValorInvalido" /\ R_visao(rd.banco) = R_agora
                /\ os.exc = "ValorInvalido" /\ O_visao(os.banco) = O_agora
                /\ rs.exc = "ValorInvalido" /\ R_visao(rs.banco) = R_agora

\* An account with funds and an account without are open, and an amount
\* that normalizes to 0.00 and a negative one are refused on both.
C7_Witness ==
    /\ \E numero \in Abertas(R_agora) : ContaDe(R_agora, numero).saldo > 0
    /\ \E numero \in Abertas(R_agora) : ContaDe(R_agora, numero).saldo = 0
    /\ \E v \in Numericos, w \in Numericos :
          /\ Centavos(v) = 0 /\ v.coef # 0
          /\ Centavos(w) < 0
          /\ \A numero \in Abertas(R_agora) :
                /\ R_Banco_sacar(refatorado, numero, v, agoraR).exc
                      = "ValorInvalido"
                /\ R_Banco_depositar(refatorado, numero, w, agoraR).exc
                      = "ValorInvalido"

-----------------------------------------------------------------------------
(* C8 *)

\* The effect of a committed transfer of centavos from origem to destino,
\* between the view before and the view after.
TransferenciaFeita(antes, depois, origem, destino, centavos) ==
    LET oa == ContaDe(antes, origem)
        od == ContaDe(depois, origem)
        da == ContaDe(antes, destino)
        dd == ContaDe(depois, destino)
        feita(t) == /\ t.tipo = "TRANSFERENCIA" /\ t.valor = centavos
                    /\ t.origem = origem /\ t.destino = destino
    IN  /\ origem # destino
        /\ od.saldo = oa.saldo - centavos
        /\ dd.saldo = da.saldo + centavos
        /\ Len(od.log) > Len(oa.log) /\ feita(Ultima(od.log))
        /\ Len(dd.log) > Len(da.log) /\ feita(Ultima(dd.log))

\* C8: a successful transfer of v from account A to another account B
\* decreases A's balance by exactly v, increases B's balance by exactly v,
\* and leaves as the last entry of A's log and of B's log a TRANSFERENCIA
\* with source A, destination B and amount v.
C8_TransferenciaMoveValor ==
    \A origem \in Numeros, destino \in Numeros, valor \in Valores :
        LET o == O_Banco_transferir(original, origem, destino, valor, agoraO)
            r == R_Banco_transferir(refatorado, origem, destino, valor, agoraR)
        IN  /\ o.exc = "" =>
                 TransferenciaFeita(O_agora, O_visao(o.banco), origem,
                                    destino, O_to_money(valor).centavos)
            /\ r.exc = "" =>
                 TransferenciaFeita(R_agora, R_visao(r.banco), origem,
                                    destino, R_to_money(valor).centavos)

\* A transfer has been committed: the logs of two accounts end with the
\* same TRANSFERENCIA entry, from the one to the other, that emptied its
\* source and funded its destination.
C8_Witness ==
    \E a \in Abertas(R_agora), b \in Abertas(R_agora) :
        LET ca == ContaDe(R_agora, a)
            cb == ContaDe(R_agora, b)
        IN  /\ a # b
            /\ ca.log # <<>> /\ cb.log # <<>>
            /\ Ultima(ca.log).tipo = "TRANSFERENCIA"
            /\ Ultima(ca.log) = Ultima(cb.log)
            /\ Ultima(ca.log).origem = a /\ Ultima(ca.log).destino = b
            /\ ca.saldo = 0 /\ cb.saldo = Ultima(cb.log).valor

-----------------------------------------------------------------------------
(* C9 *)

\* The effect of a successful deposit or withdrawal on account numero:
\* the balance moves by delta and the log grows by exactly one entry.
UmaEntrada(antes, depois, numero, delta, tipo, centavos, origem, destino) ==
    LET a == ContaDe(antes, numero)
        d == ContaDe(depois, numero)
    IN  /\ d.saldo = a.saldo + delta
        /\ Len(d.log) = Len(a.log) + 1
        /\ SubSeq(d.log, 1, Len(a.log)) = a.log
        /\ Ultima(d.log).tipo = tipo
        /\ Ultima(d.log).valor = centavos
        /\ Ultima(d.log).origem = origem
        /\ Ultima(d.log).destino = destino

\* C9: a successful deposit of v increases the balance by exactly v and
\* appends exactly one entry, a DEPOSITO of v with destination the account
\* and no source; a successful withdrawal of v decreases the balance by
\* exactly v and appends exactly one entry, a SAQUE of v with source the
\* account and no destination.
C9_DepositoESaque ==
    \A numero \in Numeros, valor \in Valores :
        LET od == O_Banco_depositar(original, numero, valor, agoraO)
            rd == R_Banco_depositar(refatorado, numero, valor, agoraR)
            os == O_Banco_sacar(original, numero, valor, agoraO)
            rs == R_Banco_sacar(refatorado, numero, valor, agoraR)
            v == Centavos(valor)
        IN  /\ od.exc = "" => UmaEntrada(O_agora, O_visao(od.banco), numero,
                                         v, "DEPOSITO", v, "", numero)
            /\ rd.exc = "" => UmaEntrada(R_agora, R_visao(rd.banco), numero,
                                         v, "DEPOSITO", v, "", numero)
            /\ os.exc = "" => UmaEntrada(O_agora, O_visao(os.banco), numero,
                                         -v, "SAQUE", v, numero, "")
            /\ rs.exc = "" => UmaEntrada(R_agora, R_visao(rs.banco), numero,
                                         -v, "SAQUE", v, numero, "")

\* An account has received two deposits, and a withdrawal of less than
\* its balance succeeds on it in both ledgers.
C9_Witness ==
    \E numero \in Abertas(R_agora), valor \in Numericos :
        LET c == ContaDe(R_agora, numero) IN
        /\ Len(c.log) = 2
        /\ c.log[1].tipo = "DEPOSITO" /\ c.log[2].tipo = "DEPOSITO"
        /\ c.saldo = c.log[1].valor + c.log[2].valor
        /\ Centavos(valor) > 0 /\ Centavos(valor) < c.saldo
        /\ R_Banco_sacar(refatorado, numero, valor, agoraR).exc = ""
        /\ O_Banco_sacar(original, numero, valor, agoraO).exc = ""

-----------------------------------------------------------------------------
(* C10 *)

\* criar_cliente on a registry: a registered taxId returns the Cliente
\* registered first and changes nothing; a new taxId gets the next id.
CriarIdempotente(resultado, antes, depois, cpf) ==
    LET i == Indice(antes.clientes, "cpf", cpf) IN
    /\ resultado.exc = ""
    /\ i # 0 => /\ resultado.ret.cliente = antes.clientes[i]
                /\ depois = antes
    /\ i = 0 => /\ resultado.ret.cliente.id = Len(antes.clientes) + 1
                /\ resultado.ret.cliente.cpf = cpf
                /\ depois.clientes = Append(antes.clientes, resultado.ret.cliente)
                /\ depois.seq_cliente = antes.seq_cliente + 1

\* The k-th customer registered has id k, under a taxId of its own.
IdsSemLacunas(visao) ==
    /\ visao.seq_cliente = Len(visao.clientes) + 1
    /\ \A k \in 1..Len(visao.clientes) : visao.clientes[k].id = k
    /\ \A j, k \in 1..Len(visao.clientes) :
          visao.clientes[j].cpf = visao.clientes[k].cpf => j = k

\* C10: criar_cliente with a registered taxId returns the existing Cliente
\* (same id, the name registered first whatever name is passed), does not
\* advance the customer-id counter and changes nothing in the ledger; the
\* k-th distinct taxId registered receives id k.
C10_CriarClienteIdempotente ==
    /\ IdsSemLacunas(O_agora)
    /\ IdsSemLacunas(R_agora)
    /\ \A nome \in Nomes, cpf \in CPFs :
          LET o == O_Banco_criar_cliente(original, nome, cpf, agoraO)
              r == R_Banco_criar_cliente(refatorado, nome, cpf, agoraR)
          IN  /\ CriarIdempotente(o, O_agora, O_visao(o.banco), cpf)
              /\ CriarIdempotente(r, R_agora, R_visao(r.banco), cpf)

\* Two customers are registered and own accounts with funds, and a name
\* other than the one registered can be passed with a registered taxId.
C10_Witness ==
    /\ Len(R_agora.clientes) = 2
    /\ \E nome \in Nomes : nome # R_agora.clientes[2].nome
    /\ \E i \in 1..Len(R_agora.contas) :
          /\ R_agora.contas[i].cliente = R_agora.clientes[2]
          /\ R_agora.contas[i].saldo > 0

-----------------------------------------------------------------------------
(* C11 *)

\* The ledgers a call can leave behind: the ledger after every call a
\* caller can make on it, whether the call returns or raises.
O_AposChamada(banco, agora) ==
    { O_Banco_criar_cliente(banco, nome, cpf, agora).banco :
          nome \in Nomes, cpf \in CPFs }
    \cup { O_Banco_abrir_conta(banco, cpf, agora).banco : cpf \in CPFs }
    \cup { O_Banco_depositar(banco, numero, valor, agora).banco :
              numero \in Numeros, valor \in Valores }
    \cup { O_Banco_sacar(banco, numero, valor, agora).banco :
              numero \in Numeros, valor \in Valores }
    \cup { O_Banco_transferir(banco, origem, destino, valor, agora).banco :
              origem \in Numeros, destino \in Numeros, valor \in Valores }
    \cup { O_Banco_extrato(banco, numero, agora).banco : numero \in Numeros }

R_AposChamada(banco, agora) ==
    { R_Banco_criar_cliente(banco, nome, cpf, agora).banco :
          nome \in Nomes, cpf \in CPFs }
    \cup { R_Banco_abrir_conta(banco, cpf, agora).banco : cpf \in CPFs }
    \cup { R_Banco_depositar(banco, numero, valor, agora).banco :
              numero \in Numeros, valor \in Valores }
    \cup { R_Banco_sacar(banco, numero, valor, agora).banco :
              numero \in Numeros, valor \in Valores }
    \cup { R_Banco_transferir(banco, origem, destino, valor, agora).banco :
              origem \in Numeros, destino \in Numeros, valor \in Valores }
    \cup { R_Banco_extrato(banco, numero, agora).banco : numero \in Numeros }

\* The k-th account opened is numbered 1000+k, and the counter holds the
\* number of the next one.
NumerosEmSequencia(visao) ==
    /\ visao.seq_conta = 1001 + Len(visao.contas)
    /\ \A k \in 1..Len(visao.contas) : visao.contas[k].numero = str(1000 + k)
    /\ \A j, k \in 1..Len(visao.contas) :
          visao.contas[j].numero = visao.contas[k].numero => j = k

\* abrir_conta on a ledger: for a registered taxId it returns the account
\* numbered 1000+k, k-1 accounts being open, owned by that customer; for an
\* unregistered one it fails and consumes no number.
AbrirSeguinte(resultado, antes, depois, cpf) ==
    LET i == Indice(antes.clientes, "cpf", cpf) IN
    /\ i # 0 =>
          /\ resultado.exc = ""
          /\ resultado.ret.numero = str(1000 + Len(antes.contas) + 1)
          /\ Len(depois.contas) = Len(antes.contas) + 1
          /\ Ultima(depois.contas).numero = resultado.ret.numero
          /\ Ultima(depois.contas).cliente = antes.clientes[i]
    /\ i = 0 =>
          /\ resultado.exc # ""
          /\ depois.seq_conta = antes.seq_conta
          /\ Len(depois.contas) = Len(antes.contas)

\* Every account open before the call is registered after it under the
\* same number with the same owner.
ContasPermanecem(antes, depois) ==
    \A k \in 1..Len(antes.contas) :
        /\ Aberta(depois, antes.contas[k].numero)
        /\ ContaDe(depois, antes.contas[k].numero).cliente
              = antes.contas[k].cliente

\* C11: the k-th successful abrir_conta returns the account numbered
\* 1000+k, whatever the customer and whatever calls, failed abrir_conta
\* among them, came in between, so the numbers are unique, without gaps and
\* start at 1001; and after any call every account opened before is still
\* registered under its number with the same owner.
C11_NumerosSequenciais ==
    /\ NumerosEmSequencia(O_agora)
    /\ NumerosEmSequencia(R_agora)
    /\ \A cpf \in CPFs :
          LET o == O_Banco_abrir_conta(original, cpf, agoraO)
              r == R_Banco_abrir_conta(refatorado, cpf, agoraR)
          IN  /\ AbrirSeguinte(o, O_agora, O_visao(o.banco), cpf)
              /\ AbrirSeguinte(r, R_agora, R_visao(r.banco), cpf)
    /\ \A o \in O_AposChamada(original, agoraO) :
          ContasPermanecem(O_agora, O_visao(o))
    /\ \A r \in R_AposChamada(refatorado, agoraR) :
          ContasPermanecem(R_agora, R_visao(r))

\* Two customers are registered, the second owns the first account and
\* one more still fits, and money has moved since the account was opened.
C11_Witness ==
    /\ Len(R_agora.clientes) = 2
    /\ Len(R_agora.contas) = 1
    /\ R_agora.contas[1].cliente = R_agora.clientes[2]
    /\ R_agora.contas[1].log # <<>>
    /\ \E cpf \in CPFs :
          /\ R_Banco_abrir_conta(refatorado, cpf, agoraR).ret.numero = "1002"
          /\ O_Banco_abrir_conta(original, cpf, agoraO).ret.numero = "1002"

-----------------------------------------------------------------------------
(* C12 *)

\* The call failed with EntidadeNaoEncontrada (NotFound) and left the whole
\* ledger as it was: customers, accounts, balances, logs, both counters.
NaoEncontrada(resultado, banco) ==
    /\ resultado.exc = "EntidadeNaoEncontrada"
    /\ resultado.banco = banco

\* C12 as claimed: abrir_conta with an unregistered taxId, and depositar,
\* sacar, extrato and transferir naming an account number that was never
\* opened (as the source, as the destination or as both), fail with
\* EntidadeNaoEncontrada whatever the amount and leave the whole ledger
\* unchanged, in the one ledger and in the other.
C12_DesconhecidoNaoEncontrado ==
    /\ \A cpf \in CPFs :
          Indice(R_agora.clientes, "cpf", cpf) = 0 =>
              /\ NaoEncontrada(O_Banco_abrir_conta(original, cpf, agoraO),
                               original)
              /\ NaoEncontrada(R_Banco_abrir_conta(refatorado, cpf, agoraR),
                               refatorado)
    /\ \A numero \in Numeros \ Abertas(R_agora) :
          /\ NaoEncontrada(O_Banco_extrato(original, numero, agoraO),
                           original)
          /\ NaoEncontrada(R_Banco_extrato(refatorado, numero, agoraR),
                           refatorado)
          /\ \A valor \in Valores :
                /\ NaoEncontrada(
                       O_Banco_depositar(original, numero, valor, agoraO),
                       original)
                /\ NaoEncontrada(
                       R_Banco_depositar(refatorado, numero, valor, agoraR),
                       refatorado)
                /\ NaoEncontrada(
                       O_Banco_sacar(original, numero, valor, agoraO),
                       original)
                /\ NaoEncontrada(
                       R_Banco_sacar(refatorado, numero, valor, agoraR),
                       refatorado)
    /\ \A origem \in Numeros, destino \in Numeros, valor \in Valores :
          (origem \notin Abertas(R_agora) \/ destino \notin Abertas(R_agora))
          =>  /\ NaoEncontrada(
                     O_Banco_transferir(original, origem, destino, valor,
                                        agoraO),
                     original)
              /\ NaoEncontrada(
                     R_Banco_transferir(refatorado, origem, destino, valor,
                                        agoraR),
                     refatorado)

-----------------------------------------------------------------------------
(* C13 *)

\* The statement of an open account, as extrato returns it.
O_extrato(banco, numero) == O_Banco_extrato(banco, numero, 0).ret.extrato
R_extrato(banco, numero) == R_Banco_extrato(banco, numero, 0).ret.extrato

\* The statement before is the beginning of the statement after.
Prefixo(antes, depois) ==
    /\ Len(antes) <= Len(depois)
    /\ SubSeq(depois, 1, Len(antes)) = antes

\* The entries of a statement are in the order they were created: momento
\* is the rank of the reading of the clock that stamped the entry.
NaOrdemDeCriacao(extrato) ==
    \A i, j \in 1..Len(extrato) :
        i < j => extrato[i].momento <= extrato[j].momento

\* C13: after any call (successful or not, on this account or another) the
\* statement of every account has the statement before the call as a
\* prefix, so no entry is removed, reordered or altered; a successful
\* monetary call puts its entries after them, so every statement lists
\* its entries in the order they were created.
C13_ExtratoSoCresce ==
    /\ \A numero \in Abertas(R_agora) :
          /\ NaOrdemDeCriacao(O_extrato(original, numero))
          /\ NaOrdemDeCriacao(R_extrato(refatorado, numero))
    /\ \A o \in O_AposChamada(original, agoraO) :
          \A numero \in Abertas(O_agora) :
              /\ Prefixo(O_extrato(original, numero), O_extrato(o, numero))
              /\ NaOrdemDeCriacao(O_extrato(o, numero))
    /\ \A r \in R_AposChamada(refatorado, agoraR) :
          \A numero \in Abertas(R_agora) :
              /\ Prefixo(R_extrato(refatorado, numero), R_extrato(r, numero))
              /\ NaOrdemDeCriacao(R_extrato(r, numero))

\* The statement of an account lists a deposit and then the two entries of
\* a transfer out of it, and the account can still receive a deposit.
C13_Witness ==
    \E numero \in Abertas(R_agora), valor \in Numericos :
        LET e == R_extrato(refatorado, numero) IN
        /\ Len(e) = 3
        /\ e[1].tipo = "DEPOSITO" /\ e[2].tipo = "SAQUE"
        /\ e[3].tipo = "TRANSFERENCIA"
        /\ O_extrato(original, numero) # <<>>
        /\ R_Banco_depositar(refatorado, numero, valor, agoraR).exc = ""
        /\ O_Banco_depositar(original, numero, valor, agoraO).exc = ""

-----------------------------------------------------------------------------
(* C14 *)

\* The raw amounts that are not a number: text that Decimal does not
\* parse ("abc"), and the text it parses to its not-a-number ("NaN").
NaoNumeros == { v \in Valores : v.classe \in {"lixo", "nan"} }

\* The call failed with ValorInvalido (InvalidAmount) and left the ledger
\* as it was.
Invalida(resultado, banco) ==
    /\ resultado.exc = "ValorInvalido"
    /\ resultado.banco = banco

\* C14 as claimed: depositar, sacar and transferir on open accounts with a
\* raw amount that is not a number fail with ValorInvalido, never with
\* another kind or with an exception that is no ErroBanco, and leave the
\* ledger unchanged, in the one ledger and in the other.
C14_NaoNumeroValorInvalido ==
    \A valor \in NaoNumeros :
        /\ \A numero \in Abertas(R_agora) :
              /\ Invalida(O_Banco_depositar(original, numero, valor, agoraO),
                          original)
              /\ Invalida(R_Banco_depositar(refatorado, numero, valor, agoraR),
                          refatorado)
              /\ Invalida(O_Banco_sacar(original, numero, valor, agoraO),
                          original)
              /\ Invalida(R_Banco_sacar(refatorado, numero, valor, agoraR),
                          refatorado)
        /\ \A origem \in Abertas(R_agora), destino \in Abertas(R_agora) :
              /\ Invalida(O_Banco_transferir(original, origem, destino, valor,
                                             agoraO),
                          original)
              /\ Invalida(R_Banco_transferir(refatorado, origem, destino,
                                             valor, agoraR),
                          refatorado)

-----------------------------------------------------------------------------
(* C15 *)

\* bruto has been normalized, and it is a decimal literal (a finite number)
Normalizado == dinheiro # <<>>
Finito == bruto.classe = "numero"

\* _to_money returned a Decimal of exponent -2 that is a number:
\* centavos * 10^-2.
Devolveu(d) == d.exc = "" /\ ~d.nan

\* No whole number of centavos is nearer to coef * 10^-casas than
\* centavos is: |coef * 10^-casas - centavos * 10^-2| <= 0.005.
MaisProximo(coef, casas, centavos) ==
    IF casas < 0 THEN centavos = coef * Pot10(2 - casas)
    ELSE 2 * Abs(coef * 100 - centavos * Pot10(casas)) <= Pot10(casas)

\* What C15 says of the result d of normalizing bruto: a value of two
\* places nearest to the input, returned unchanged when the input has
\* two places already (a normalized value), and 10.00 for 10, 10.00 and
\* 10.001.
BemNormalizado(d) ==
    /\ Devolveu(d)
    /\ MaisProximo(bruto.coef, bruto.casas, d.centavos)
    /\ bruto.casas = 2 => d.centavos = bruto.coef
    /\ bruto \in { Numero("str", 10, 0), Numero("str", 1000, 2),
                    Numero("str", 10001, 3) } => d.centavos = 1000

\* C15 as claimed: _to_money maps every input that parses to a finite
\* number to a value with two fraction digits that is a nearest whole-cent
\* value, the same in both variants, and maps a normalized value to itself;
\* 10, 10.00 and 10.001 give 10.00.
C15_TodoNumeroNormaliza ==
    (Normalizado /\ Finito) =>
        /\ BemNormalizado(dinheiro[1].o)
        /\ BemNormalizado(dinheiro[1].r)
        /\ dinheiro[1].o = dinheiro[1].r

\* C15 as amended: the same, of every input that parses to a finite number
\* whose value in whole cents has at most 28 digits (the precision of the
\* decimal context).
C15_NormalizaDentroDaPrecisao ==
    (Normalizado /\ Finito /\ ~Excede(bruto.coef, bruto.casas)) =>
        /\ BemNormalizado(dinheiro[1].o)
        /\ BemNormalizado(dinheiro[1].r)
        /\ dinheiro[1].o = dinheiro[1].r

\* The Decimal 10.00 that _to_money returned (for 10, 10.00 or 10.001) has
\* been normalized again, to 10.00 in both variants.
C15_Witness ==
    /\ bruto = Numero("Decimal", 1000, 2)
    /\ Normalizado
    /\ dinheiro[1].o.centavos = 1000
    /\ dinheiro[1].r.centavos = 1000

-----------------------------------------------------------------------------
(* C16 *)

\* The accounts of a ledger that a customer owns, in the order they were
\* opened.
ContasDoCliente(contas, cliente) ==
    LET Dele(conta) == conta.cliente = cliente IN SelectSeq(contas, Dele)

\* The list has one entry per registered customer, in registration order,
\* each with exactly the accounts of that customer in the order they were
\* opened (none: the empty sequence), and every account is in the list
\* under one customer and once.
ListaCerta(lista, clientes, contas) ==
    /\ Len(lista) = Len(clientes)
    /\ \A k \in 1..Len(lista) :
          /\ lista[k].cliente = clientes[k]
          /\ lista[k].contas = ContasDoCliente(contas, clientes[k])
    /\ \A j \in 1..Len(contas) :
          Cardinality({ <<k, i>> \in (1..Len(lista)) \X (1..Len(contas)) :
                          /\ i <= Len(lista[k].contas)
                          /\ lista[k].contas[i].numero = contas[j].numero })
            = 1

\* C16: listar_clientes_e_contas returns exactly one entry per registered
\* customer, in registration order, each paired with exactly the accounts
\* that customer owns in account-creation order (an empty sequence for a
\* customer without accounts), every opened account appearing under
\* exactly one customer.
C16_ListaClientesEContas ==
    /\ ListaCerta(O_Banco_listar_clientes_e_contas(original),
                  original.clientes_por_cpf, original.contas_por_numero)
    /\ ListaCerta(R_Banco_listar_clientes_e_contas(refatorado),
                  refatorado.clientes_por_cpf, refatorado.contas_por_numero)

\* Two customers of the same name are registered; the first has no
\* account and the second has two, one of them with funds.
C16_Witness ==
    LET lista == R_Banco_listar_clientes_e_contas(refatorado) IN
    /\ Len(lista) = 2
    /\ lista[1].cliente.nome = lista[2].cliente.nome
    /\ lista[1].contas = <<>>
    /\ Len(lista[2].contas) = 2
    /\ lista[2].contas[1].saldo > 0
    /\ Len(O_Banco_listar_clientes_e_contas(original)[2].contas) = 2

-----------------------------------------------------------------------------
(* C17 *)

\* The ledger as it is when it holds more than two accounts, and else as
\* it is once its first customer opens one more: a call is then made
\* beside an account it does not name.
O_ComMaisUma ==
    IF Len(original.contas_por_numero) > 2 \/ original.clientes_por_cpf = <<>>
    THEN original
    ELSE O_Banco_abrir_conta(original, original.clientes_por_cpf[1].cpf,
                             agoraO).banco

R_ComMaisUma ==
    IF Len(refatorado.contas_por_numero) > 2
       \/ refatorado.clientes_por_cpf = <<>>
    THEN refatorado
    ELSE R_Banco_abrir_conta(refatorado, refatorado.clientes_por_cpf[1].cpf,
                             agoraR).banco

\* The log of account numero grew by exactly the two entries a and t.
CresceuDuas(antes, depois, numero, a, t) ==
    ContaDe(depois, numero).log = ContaDe(antes, numero).log \o <<a, t>>

\* The records of a committed transfer from origem to destino: the log of
\* the source grew by a SAQUE and then a TRANSFERENCIA, the log of the
\* destination by a DEPOSITO and then a TRANSFERENCIA, the two
\* TRANSFERENCIA entries are one record, and no other log changed.
TresRegistos(antes, depois, origem, destino) ==
    LET lo == ContaDe(depois, origem).log
        ld == ContaDe(depois, destino).log
        s == lo[Len(lo) - 1]
        d == ld[Len(ld) - 1]
        t == Ultima(lo)
    IN  /\ Len(lo) >= 2 /\ Len(ld) >= 2
        /\ CresceuDuas(antes, depois, origem, s, t)
        /\ CresceuDuas(antes, depois, destino, d, Ultima(ld))
        /\ s.tipo = "SAQUE" /\ d.tipo = "DEPOSITO"
        /\ t.tipo = "TRANSFERENCIA"
        /\ Ultima(ld) = t
        /\ t.origem = origem /\ t.destino = destino
        /\ s.valor = t.valor /\ d.valor = t.valor
        /\ Cardinality({s, d, t}) = 3
        /\ \A numero \in Abertas(antes) \ {origem, destino} :
              ContaDe(depois, numero).log = ContaDe(antes, numero).log

\* C17: a committed transfer creates three records: the log of the source
\* grows by exactly a SAQUE entry followed by a TRANSFERENCIA entry, the
\* log of the destination by exactly a DEPOSITO entry followed by a
\* TRANSFERENCIA entry, the two TRANSFERENCIA entries being one and the
\* same record (same timestamp, amount, source and destination), and the
\* log of no other account changes.
C17_TransferenciaTresRegistos ==
    LET bo == O_ComMaisUma
        br == R_ComMaisUma
        vo == O_visao(bo)
        vr == R_visao(br)
    IN
    \A origem \in Numeros, destino \in Numeros, valor \in Valores :
        LET o == O_Banco_transferir(bo, origem, destino, valor, agoraO)
            r == R_Banco_transferir(br, origem, destino, valor, agoraR)
        IN  /\ o.exc = "" =>
                  /\ TresRegistos(vo, O_visao(o.banco), origem, destino)
                  /\ o.agora = agoraO + 3
            /\ r.exc = "" =>
                  /\ TresRegistos(vr, R_visao(r.banco), origem, destino)
                  /\ r.agora = agoraR + 3

\* Two accounts with logs are open, a third can be opened beside them,
\* and a transfer between the two then commits in both ledgers.
C17_Witness ==
    /\ Len(R_agora.contas) = 2
    /\ R_agora.contas[1].log # <<>> /\ R_agora.contas[2].log # <<>>
    /\ Len(R_ComMaisUma.contas_por_numero) = 3
    /\ Len(O_ComMaisUma.contas_por_numero) = 3
    /\ \E valor \in Numericos :
          /\ R_Banco_transferir(R_ComMaisUma, "1001", "1002", valor,
                                agoraR).exc = ""
          /\ O_Banco_transferir(O_ComMaisUma, "1001", "1002", valor,
                                agoraO).exc = ""

-----------------------------------------------------------------------------
(* C18 *)

\* The sum of the amounts of the entries of one kind in a log.
RECURSIVE SomaDoTipo(_, _)
SomaDoTipo(log, tipo) ==
    IF log = <<>> THEN 0
    ELSE SomaDoTipo(Tail(log), tipo)
         + (IF Head(log).tipo = tipo THEN Head(log).valor ELSE 0)

DepositosMenosSaques(visao) ==
    \A i \in 1..Len(visao.contas) :
        LET c == visao.contas[i] IN
        c.saldo = SomaDoTipo(c.log, "DEPOSITO") - SomaDoTipo(c.log, "SAQUE")

\* C18: in every reachable state the balance of every account is the sum
\* of the amounts of the DEPOSITO entries of its own log minus the sum of
\* the amounts of the SAQUE entries of its own log; TRANSFERENCIA entries
\* contribute nothing.
C18_SaldoDepositosMenosSaques ==
    /\ DepositosMenosSaques(O_agora)
    /\ DepositosMenosSaques(R_agora)

\* An account has been credited and debited: its log holds a DEPOSITO and
\* a SAQUE entry, in both ledgers.
C18_Witness ==
    /\ \E i \in 1..Len(R_agora.contas) :
          LET c == R_agora.contas[i] IN
          /\ SomaDoTipo(c.log, "DEPOSITO") > 0
          /\ SomaDoTipo(c.log, "SAQUE") > 0
    /\ \E i \in 1..Len(O_agora.contas) :
          LET c == O_agora.contas[i] IN
          /\ SomaDoTipo(c.log, "DEPOSITO") > 0
          /\ SomaDoTipo(c.log, "SAQUE") > 0

-----------------------------------------------------------------------------
(* C19 *)

\* The descriptions Banco.depositar and Banco.sacar give their entries
\* (a transfer describes its entries as "... para N" and "... de N").
DoLivro == {"Depósito", "Saque", "depósito", "saque"}

\* The sum of the amounts of the entries of one kind that a deposit or a
\* withdrawal of the ledger recorded in a log.
RECURSIVE SomaDoLivro(_, _)
SomaDoLivro(log, tipo) ==
    IF log = <<>> THEN 0
    ELSE SomaDoLivro(Tail(log), tipo)
         + (IF Head(log).tipo = tipo /\ Head(log).descricao \in DoLivro
            THEN Head(log).valor ELSE 0)

\* Deposits of the ledger minus withdrawals of the ledger, over the
\* accounts 1..n of a view.
RECURSIVE Movimento(_, _)
Movimento(visao, n) ==
    IF n = 0 THEN 0
    ELSE Movimento(visao, n - 1)
         + SomaDoLivro(visao.contas[n].log, "DEPOSITO")
         - SomaDoLivro(visao.contas[n].log, "SAQUE")

\* C19: transfers conserve money: every transfer, whether it returns or
\* raises, leaves the sum of the balances of all the accounts unchanged,
\* and in every reachable state that sum is the total of the successful
\* deposits of the ledger minus the total of its successful withdrawals.
C19_TransferenciasConservam ==
    /\ \A origem \in Numeros, destino \in Numeros, valor \in Valores :
          /\ Total(O_Banco_transferir(original, origem, destino, valor,
                                      agoraO).banco.contas_por_numero)
                = Total(original.contas_por_numero)
          /\ Total(R_Banco_transferir(refatorado, origem, destino, valor,
                                      agoraR).banco.contas_por_numero)
                = Total(refatorado.contas_por_numero)
    /\ Total(original.contas_por_numero)
          = Movimento(O_agora, Len(O_agora.contas))
    /\ Total(refatorado.contas_por_numero)
          = Movimento(R_agora, Len(R_agora.contas))

\* Money has been deposited and moved by a transfer, and from here one
\* transfer returns and another raises SaldoInsuficiente, in both ledgers.
C19_Witness ==
    /\ Total(refatorado.contas_por_numero) > 0
    /\ Total(original.contas_por_numero) > 0
    /\ \E i \in 1..Len(R_agora.contas) :
          SomaDoTipo(R_agora.contas[i].log, "TRANSFERENCIA") > 0
    /\ \E i \in 1..Len(O_agora.contas) :
          SomaDoTipo(O_agora.contas[i].log, "TRANSFERENCIA") > 0
    /\ \E origem \in Numeros, destino \in Numeros :
          \E pouco \in Numericos, muito \in Numericos :
              /\ R_Banco_transferir(refatorado, origem, destino, pouco,
                                    agoraR).exc = ""
              /\ O_Banco_transferir(original, origem, destino, pouco,
                                    agoraO).exc = ""
              /\ R_Banco_transferir(refatorado, origem, destino, muito,
                                    agoraR).exc = "SaldoInsuficiente"
              /\ O_Banco_transferir(original, origem, destino, muito,
                                    agoraO).exc = "SaldoInsuficiente"

-----------------------------------------------------------------------------
(* C20 *)

\* What a monetary operation or a statement leaves alone: the registry of
\* customers, the accounts that are open with their numbers and owners,
\* both counters, and the balance and log of every account that is not
\* one of nomeadas.
SoAsNomeadas(antes, depois, nomeadas) ==
    /\ depois.clientes_por_cpf = antes.clientes_por_cpf
    /\ depois.seq_cliente = antes.seq_cliente
    /\ depois.seq_conta = antes.seq_conta
    /\ Len(depois.contas_por_numero) = Len(antes.contas_por_numero)
    /\ \A k \in 1..Len(antes.contas_por_numero) :
          LET a == antes.contas_por_numero[k]
              d == depois.contas_por_numero[k]
          IN  /\ d.numero = a.numero
              /\ d.cliente = a.cliente
              /\ a.numero \notin nomeadas => d = a

\* C20: monetary operations touch only the accounts they name: depositar
\* and sacar on account X leave the balance and the log of every other
\* account unchanged, transferir from A to B leaves every account other
\* than A and B unchanged, and none of depositar, sacar, transferir and
\* extrato changes the registry of customers, the set of accounts, the
\* owner of an account or the counters of customer ids and account
\* numbers; this whether the call returns or raises.
C20_SoAsContasNomeadas ==
    LET bo == O_ComMaisUma
        br == R_ComMaisUma
    IN
    /\ \A numero \in Numeros :
          /\ SoAsNomeadas(bo, O_Banco_extrato(bo, numero, agoraO).banco, {})
          /\ SoAsNomeadas(br, R_Banco_extrato(br, numero, agoraR).banco, {})
          /\ \A valor \in Valores :
                /\ SoAsNomeadas(bo,
                       O_Banco_depositar(bo, numero, valor, agoraO).banco,
                       {numero})
                /\ SoAsNomeadas(bo,
                       O_Banco_sacar(bo, numero, valor, agoraO).banco,
                       {numero})
                /\ SoAsNomeadas(br,
                       R_Banco_depositar(br, numero, valor, agoraR).banco,
                       {numero})
                /\ SoAsNomeadas(br,
                       R_Banco_sacar(br, numero, valor, agoraR).banco,
                       {numero})
    /\ \A origem \in Numeros, destino \in Numeros, valor \in Valores :
          /\ SoAsNomeadas(bo,
                 O_Banco_transferir(bo, origem, destino, valor, agoraO).banco,
                 {origem, destino})
          /\ SoAsNomeadas(br,
                 R_Banco_transferir(br, origem, destino, valor, agoraR).banco,
                 {origem, destino})

\* Two accounts hold entries, a third is opened beside them, and then a
\* deposit into the third and a transfer from the second to the third
\* both return, in both ledgers: each acts beside accounts it does not
\* name.
C20_Witness ==
    /\ Len(R_agora.contas) = 2 /\ Len(O_agora.contas) = 2
    /\ \A k \in 1..2 :
          R_agora.contas[k].log # <<>> /\ O_agora.contas[k].log # <<>>
    /\ \E valor \in Numericos :
          /\ R_Banco_depositar(R_ComMaisUma, "1003", valor, agoraR).exc = ""
          /\ R_Banco_transferir(R_ComMaisUma, "1002", "1003", valor,
                                agoraR).exc = ""
          /\ O_Banco_depositar(O_ComMaisUma, "1003", valor, agoraO).exc = ""
          /\ O_Banco_transferir(O_ComMaisUma, "1002", "1003", valor,
                                agoraO).exc = ""

====
